---------------------------- MODULE Spec2Model ----------------------------
(***************************************************************************)
(* Model of the profile synchronisation engine of the RPG character        *)
(* builder (src/backend/profile_sync.py, class ProfileSync).               *)
(*                                                                         *)
(* A profile is a Python dict loaded from / dumped to a JSON file.  It is  *)
(* modelled as a sequence of <<key, value>> pairs with pairwise distinct   *)
(* keys, in insertion order (dicts and json.load/json.dump keep insertion  *)
(* order; only json.dumps(sort_keys=True) reorders).  Strings that the     *)
(* code compares with < and > (the timestamps) are sequences of digit      *)
(* characters, compared lexicographically as Python compares str.          *)
(***************************************************************************)
EXTENDS Integers, Sequences, FiniteSets, TLC

-----------------------------------------------------------------------------
(* Bounds of the model *)

\* Number of operations (engine calls and caller writes) in one behaviour.
MaxOps == 2

\* Number of calls that the environment's I/O faults strike in one behaviour.
MaxFaults == 1

\* Number of threads that call log_sync on one engine.
NumThreads == 2

\* Number of operations in a behaviour of sync, caller edit, sync again.
MaxEditOps == 3

(* Program constants *)

\* len(self.sync_log) > 100
LogCap == 100

-----------------------------------------------------------------------------
(* Strings compared by the code: sequences of digits, lexicographic order *)

RECURSIVE StrGreater(_, _)
\* Python's a > b on str: the first differing character decides, a proper
\* prefix is the smaller string.
StrGreater(a, b) ==
    IF a = <<>> THEN FALSE
    ELSE IF b = <<>> THEN TRUE
    ELSE IF Head(a) # Head(b) THEN Head(a) > Head(b)
    ELSE StrGreater(Tail(a), Tail(b))

\* The literal '1970-01-01T00:00:00' (only its leading characters "1970").
EpochDefault == <<1, 9, 7, 0>>

\* datetime.now().isoformat(): a fixed-width string "2ddd" for clock value
\* n = ddd (the leading "2" stands for the unchanging leading part of a
\* present-day ISO timestamp).
IsoFormat(n) == <<2, (n \div 100) % 10, (n \div 10) % 10, n % 10>>

-----------------------------------------------------------------------------
(* Dicts *)

Has(d, k) == \E i \in DOMAIN d : d[i][1] = k

\* d[k]
Get(d, k) == d[CHOOSE i \in DOMAIN d : d[i][1] = k][2]

\* d.get(k, default)
GetOr(d, k, default) == IF Has(d, k) THEN Get(d, k) ELSE default

\* d[k] = v : an existing key keeps its position, a new key goes last.
Put(d, k, v) ==
    IF Has(d, k)
    THEN [i \in DOMAIN d |-> IF d[i][1] = k THEN <<k, v>> ELSE d[i]]
    ELSE Append(d, <<k, v>>)

RECURSIVE Update(_, _)
\* {**a, **b}: a's pairs, then each pair of b assigned in b's order.
Update(a, b) ==
    IF b = <<>> THEN a
    ELSE Update(Put(a, Head(b)[1], Head(b)[2]), Tail(b))

-----------------------------------------------------------------------------
(* Keys of the modelled documents *)

\* Keys whose value is itself a mapping.
MappingKeys == {"stats"}

\* Every key of the model in code-point order (upper case before lower
\* case), the order json.dumps(sort_keys=True) emits them in.
SortedKeys ==
    <<"DEX", "STR", "last_cloud_sync", "last_sync", "name", "stats",
      "sync_hash">>

\* One mapping with its keys sorted.
SortKeys(d) ==
    LET ks == SelectSeq(SortedKeys, LAMBDA k : Has(d, k))
    IN  [i \in DOMAIN ks |-> <<ks[i], Get(d, ks[i])>>]

\* json.dumps(profile_data, sort_keys=True): keys sorted at every nesting
\* level; the text is represented by the sorted sequence of pairs.
JsonDumpsSorted(d) ==
    LET s == SortKeys(d)
    IN  [i \in DOMAIN s |->
            <<s[i][1],
              IF s[i][1] \in MappingKeys THEN SortKeys(s[i][2]) ELSE s[i][2]>>]

\* hashlib.sha256(...).hexdigest(): collision free, so a tagged copy of the
\* text that was hashed.
Sha256(text) == <<"sha256", text>>

GetProfileHash(profile_data) == Sha256(JsonDumpsSorted(profile_data))

-----------------------------------------------------------------------------
(* Optional[Dict] and the files of local_dir *)

\* None
None == [none |-> TRUE, doc |-> <<>>]

Some(d) == [none |-> FALSE, doc |-> d]

\* Python truth value of an Optional[Dict]: None and {} are both false.
Truthy(p) == (~p.none) /\ p.doc # <<>>

\* A path that does not exist, a file that holds a JSON object, and a file
\* whose text is not a JSON document (empty or cut short).
NoFile == [kind |-> "absent", doc |-> <<>>]

JsonFile(d) == [kind |-> "json", doc |-> d]

CorruptFile == [kind |-> "corrupt", doc |-> <<>>]

\* Profile ids are strings, written as sequences of tokens so that
\* f"{profile_id}.json", f"cloud_{profile_id}.json" and startswith('cloud_')
\* are computed rather than tabulated.
ProfileIds == {<<"hero">>, <<"mage">>}

\* os.path.join(self.local_dir, f"{profile_id}.json")
LocalPath(profile_id) == profile_id \o <<".json">>

\* os.path.join(self.local_dir, f"cloud_{profile_id}.json")
CloudPath(profile_id) == <<"cloud_">> \o profile_id \o <<".json">>

Paths == {LocalPath(i) : i \in ProfileIds} \cup {CloudPath(i) : i \in ProfileIds}

-----------------------------------------------------------------------------
(* Faults the environment may inject into one call *)

\* read_local / read_cloud: open() or json.load() raises on an existing,
\* well-formed file.  write_local / write_cloud: "open" = open(path, 'w')
\* raises and the file is untouched; "partial" = the file was truncated by
\* open() and json.dump() raised before the text was complete.
NoFaults ==
    [read_local |-> FALSE, read_cloud |-> FALSE,
     write_local |-> "ok", write_cloud |-> "ok"]

OneFault ==
    { [NoFaults EXCEPT !.read_local = TRUE],
      [NoFaults EXCEPT !.read_cloud = TRUE],
      [NoFaults EXCEPT !.write_local = "open"],
      [NoFaults EXCEPT !.write_local = "partial"],
      [NoFaults EXCEPT !.write_cloud = "open"],
      [NoFaults EXCEPT !.write_cloud = "partial"] }

\* Both replicas unreadable during the same call (the disk is gone).
BothReadsFault == [NoFaults EXCEPT !.read_local = TRUE, !.read_cloud = TRUE]

-----------------------------------------------------------------------------
(* The engine's methods, as functions of the state they read and write *)

\* log_entry = {'timestamp': ..., 'level': level, 'message': message}
LogEntry(clock, message, level) ==
    [timestamp |-> IsoFormat(clock), level |-> level, message |-> message]

\* s[i:] as Python slices a list: a negative i counts from the end, and
\* an i beyond either end is clipped.
SliceFrom(s, i) ==
    LET start == IF i < 0
                 THEN (IF Len(s) + i < 0 THEN 0 ELSE Len(s) + i)
                 ELSE (IF i > Len(s) THEN Len(s) ELSE i)
    IN  SubSeq(s, start + 1, Len(s))

\* A slip in the trim: the first LogCap entries kept, not the last.
LogSyncKeepOldest(log, clock, message, level) ==
    LET longer == Append(log, LogEntry(clock, message, level))
    IN  IF Len(longer) > LogCap THEN SubSeq(longer, 1, LogCap) ELSE longer

\* log_sync: append, then keep the last LogCap entries.
LogSync(log, clock, message, level) ==
    LET longer == Append(log, LogEntry(clock, message, level))
    IN  IF Len(longer) > LogCap THEN SliceFrom(longer, -LogCap) ELSE longer

\* get_sync_log: self.sync_log[-limit:]
GetSyncLog(log, limit) == SliceFrom(log, -limit)

\* load_local_profile.  [ret, log, io]; io says whether a well-formed file
\* was opened (the place a transient fault can strike).
LoadLocalProfile(fs, log, clock, profile_id, fault) ==
    LET file == fs[LocalPath(profile_id)]
    IN  IF file.kind = "absent"
        THEN [ret |-> None, log |-> log, io |-> FALSE]
        ELSE IF file.kind = "corrupt" \/ fault
        THEN [ret |-> None,
              log |-> LogSync(log, clock,
                        <<"Error loading local profile ", profile_id>>, "error"),
              io |-> file.kind = "json"]
        ELSE [ret |-> Some(file.doc), log |-> log, io |-> TRUE]

\* fetch_cloud_profile.
FetchCloudProfile(url, fs, log, clock, profile_id, fault) ==
    LET file == fs[CloudPath(profile_id)]
    IN  IF url = ""
        THEN [ret |-> None, log |-> log, io |-> FALSE]
        ELSE IF file.kind = "absent"
        THEN [ret |-> None, log |-> log, io |-> FALSE]
        ELSE IF file.kind = "corrupt" \/ fault
        THEN [ret |-> None,
              log |-> LogSync(log, clock,
                        <<"Error fetching cloud profile ", profile_id>>, "error"),
              io |-> file.kind = "json"]
        ELSE [ret |-> Some(file.doc),
              log |-> LogSync(log, clock,
                        <<"Fetched cloud profile ", profile_id>>, "success"),
              io |-> TRUE]

\* What open(path, 'w') followed by json.dump leaves at path.
WriteFile(fs, path, doc, fault) ==
    IF fault = "open" THEN fs
    ELSE IF fault = "partial" THEN [fs EXCEPT ![path] = CorruptFile]
    ELSE [fs EXCEPT ![path] = JsonFile(doc)]

\* save_local_profile.  profile_data is mutated in place: doc is the dict as
\* the caller sees it afterwards.  The clock has advanced when the next
\* datetime.now() is taken.
SaveLocalProfile(fs, log, clock, profile_id, profile_data, fault) ==
    LET stamped == Put(profile_data, "last_sync", IsoFormat(clock))
        hashed == Put(stamped, "sync_hash", GetProfileHash(stamped))
    IN  [ok |-> fault = "ok",
         doc |-> hashed,
         files |-> WriteFile(fs, LocalPath(profile_id), hashed, fault),
         clock |-> clock + 1,
         log |-> IF fault = "ok"
                 THEN LogSync(log, clock + 1,
                        <<"Saved local profile ", profile_id>>, "success")
                 ELSE LogSync(log, clock + 1,
                        <<"Error saving local profile ", profile_id>>, "error")]

\* A slip in push_cloud_profile: the test of self.cloud_url left out.
PushCloudProfileAnyUrl(url, fs, log, clock, profile_id, profile_data, fault) ==
    LET stamped == Put(profile_data, "last_cloud_sync", IsoFormat(clock))
    IN  [ok |-> fault = "ok",
         doc |-> stamped,
         files |-> WriteFile(fs, CloudPath(profile_id), stamped, fault),
         clock |-> clock + 1,
         log |-> IF fault = "ok"
                 THEN LogSync(log, clock + 1,
                        <<"Pushed cloud profile ", profile_id>>, "success")
                 ELSE LogSync(log, clock + 1,
                        <<"Error pushing cloud profile ", profile_id>>, "error"),
         io |-> TRUE]

\* push_cloud_profile.
PushCloudProfile(url, fs, log, clock, profile_id, profile_data, fault) ==
    LET stamped == Put(profile_data, "last_cloud_sync", IsoFormat(clock))
    IN  IF url = ""
        THEN [ok |-> FALSE, doc |-> profile_data, files |-> fs,
              clock |-> clock, log |-> log, io |-> FALSE]
        ELSE [ok |-> fault = "ok",
              doc |-> stamped,
              files |-> WriteFile(fs, CloudPath(profile_id), stamped, fault),
              clock |-> clock + 1,
              log |-> IF fault = "ok"
                      THEN LogSync(log, clock + 1,
                             <<"Pushed cloud profile ", profile_id>>, "success")
                      ELSE LogSync(log, clock + 1,
                             <<"Error pushing cloud profile ", profile_id>>, "error"),
              io |-> TRUE]

\* A slip in the 'newest' comparison: < where the code has >.
LocalIsOlder(local_profile, cloud_profile) ==
    StrGreater(GetOr(cloud_profile, "last_cloud_sync", EpochDefault),
               GetOr(local_profile, "last_sync", EpochDefault))

\* A slip in the 'newest' comparison: >= where the code has >.
LocalIsNewerOrSame(local_profile, cloud_profile) ==
    ~StrGreater(GetOr(cloud_profile, "last_cloud_sync", EpochDefault),
                GetOr(local_profile, "last_sync", EpochDefault))

\* The 'newest' comparison of resolve_conflict: local_time > cloud_time.
LocalIsNewer(local_profile, cloud_profile) ==
    StrGreater(GetOr(local_profile, "last_sync", EpochDefault),
               GetOr(cloud_profile, "last_cloud_sync", EpochDefault))

\* A slip in the merge: the two dicts unpacked in the other order, so that
\* local values win on collision.
MergePreferLocal(local_profile, cloud_profile) ==
    Update(cloud_profile, local_profile)

\* merged = {**local_profile, **cloud_profile}
MergeProfiles(local_profile, cloud_profile) ==
    Update(local_profile, cloud_profile)

\* resolve_conflict.  [doc, log].
ResolveConflict(local_profile, cloud_profile, strategy, log, clock) ==
    IF strategy = "newest"
    THEN [doc |-> IF LocalIsNewer(local_profile, cloud_profile)
                  THEN local_profile ELSE cloud_profile,
          log |-> LogSync(log, clock,
                    <<"Conflict resolved using newest (", strategy, ")">>, "info")]
    ELSE IF strategy = "local"
    THEN [doc |-> local_profile,
          log |-> LogSync(log, clock,
                    <<"Conflict resolved using local version">>, "info")]
    ELSE IF strategy = "cloud"
    THEN [doc |-> cloud_profile,
          log |-> LogSync(log, clock,
                    <<"Conflict resolved using cloud version">>, "info")]
    ELSE IF strategy = "merge"
    THEN [doc |-> MergeProfiles(local_profile, cloud_profile),
          log |-> LogSync(log, clock,
                    <<"Conflict resolved using merge strategy">>, "info")]
    ELSE [doc |-> local_profile, log |-> log]

\* The dict sync_profile returns.  'profile' holds the very dict object that
\* was handed to save_local_profile / push_cloud_profile, so it shows the
\* keys they set on it.
Result(status, action, profile) ==
    [status |-> status, action |-> action, profile |-> profile]

ResultWithStrategy(status, action, profile, strategy) ==
    [status |-> status, action |-> action, profile |-> profile,
     strategy |-> strategy]

\* sync_profile, from the two reads to the return.  Besides the new files,
\* log and clock and the returned dict, the record keeps what the call saw
\* and did: the two values read, the resolved dict as resolve_conflict
\* returned it, and which I/O was performed.
SyncProfile(url, fs, log, clock, profile_id, strategy, faults) ==
    LET rl == LoadLocalProfile(fs, log, clock, profile_id, faults.read_local)
        rc == FetchCloudProfile(url, fs, rl.log, clock, profile_id,
                                faults.read_cloud)
        local_profile == rl.ret
        cloud_profile == rc.ret
        reads == [read_local |-> rl.io, read_cloud |-> rc.io]
    IN  IF Truthy(local_profile) /\ ~Truthy(cloud_profile)
        THEN \* Case 1: only local exists
             LET push == PushCloudProfile(url, fs, rc.log, clock, profile_id,
                                          local_profile.doc, faults.write_cloud)
             IN  [files |-> push.files, log |-> push.log, clock |-> push.clock,
                  result |-> Result("synced", "uploaded_to_cloud",
                                    Some(push.doc)),
                  local_profile |-> local_profile,
                  cloud_profile |-> cloud_profile,
                  resolved |-> None,
                  io |-> reads @@
                         [write_local |-> FALSE, write_cloud |-> push.io],
                  saved |-> FALSE, pushed |-> push.ok]
        ELSE IF Truthy(cloud_profile) /\ ~Truthy(local_profile)
        THEN \* Case 2: only cloud exists
             LET save == SaveLocalProfile(fs, rc.log, clock, profile_id,
                                          cloud_profile.doc, faults.write_local)
             IN  [files |-> save.files, log |-> save.log, clock |-> save.clock,
                  result |-> Result("synced", "downloaded_from_cloud",
                                    Some(save.doc)),
                  local_profile |-> local_profile,
                  cloud_profile |-> cloud_profile,
                  resolved |-> None,
                  io |-> reads @@
                         [write_local |-> TRUE, write_cloud |-> FALSE],
                  saved |-> save.ok, pushed |-> FALSE]
        ELSE IF Truthy(local_profile) /\ Truthy(cloud_profile)
        THEN \* Case 3: both exist
             IF GetProfileHash(local_profile.doc)
                    = GetProfileHash(cloud_profile.doc)
             THEN [files |-> fs, log |-> rc.log, clock |-> clock,
                   result |-> Result("synced", "already_synced", local_profile),
                   local_profile |-> local_profile,
                   cloud_profile |-> cloud_profile,
                   resolved |-> None,
                   io |-> reads @@
                          [write_local |-> FALSE, write_cloud |-> FALSE],
                   saved |-> FALSE, pushed |-> FALSE]
             ELSE LET res == ResolveConflict(local_profile.doc,
                                             cloud_profile.doc, strategy,
                                             rc.log, clock)
                      save == SaveLocalProfile(fs, res.log, clock, profile_id,
                                               res.doc, faults.write_local)
                      push == PushCloudProfile(url, save.files, save.log,
                                               save.clock, profile_id,
                                               save.doc, faults.write_cloud)
                  IN  [files |-> push.files, log |-> push.log,
                       clock |-> push.clock,
                       result |-> ResultWithStrategy("synced",
                                     "conflict_resolved", Some(push.doc),
                                     strategy),
                       local_profile |-> local_profile,
                       cloud_profile |-> cloud_profile,
                       resolved |-> Some(res.doc),
                       io |-> reads @@
                              [write_local |-> TRUE, write_cloud |-> push.io],
                       saved |-> save.ok, pushed |-> push.ok]
        ELSE \* Case 4: neither exists
             [files |-> fs, log |-> rc.log, clock |-> clock,
              result |-> Result("error", "profile_not_found", None),
              local_profile |-> local_profile,
              cloud_profile |-> cloud_profile,
              resolved |-> None,
              io |-> reads @@ [write_local |-> FALSE, write_cloud |-> FALSE],
              saved |-> FALSE, pushed |-> FALSE]

\* A fault can only strike an I/O operation the call performs.
FaultsStrike(faults, io) ==
    /\ faults.read_local => io.read_local
    /\ faults.read_cloud => io.read_cloud
    /\ faults.write_local # "ok" => io.write_local
    /\ faults.write_cloud # "ok" => io.write_cloud

\* f.endswith('.json') and not f.startswith('cloud_')
IsLocalProfileFile(f) ==
    /\ f # <<>>
    /\ f[Len(f)] = ".json"
    /\ f[1] # "cloud_"

\* f.replace('.json', ''): every occurrence of '.json' is removed.
StripJson(f) == SelectSeq(f, LAMBDA token : token # ".json")

\* for profile_id in local_files: results.append(self.sync_profile(...)).
\* acc carries the files, log and clock from one call to the next, the
\* results, the ids sync_profile was called with, and whether every
\* injected fault met an I/O statement that ran.
RECURSIVE SyncEach(_, _, _, _, _)
SyncEach(url, acc, local_files, strategy, faultsOf) ==
    IF local_files = <<>>
    THEN acc
    ELSE LET After(r) ==
                 [files |-> r.files, log |-> r.log, clock |-> r.clock,
                  results |-> Append(acc.results, r.result),
                  calls |-> Append(acc.calls, Head(local_files)),
                  struck |-> acc.struck
                               /\ FaultsStrike(Head(faultsOf), r.io)]
         IN  SyncEach(url,
                 After(SyncProfile(url, acc.files, acc.log, acc.clock,
                                   Head(local_files), strategy,
                                   Head(faultsOf))),
                 Tail(local_files), strategy, Tail(faultsOf))

\* sync_all_profiles over the directory listing `listing`; faultsOf gives
\* the faults injected into the call for each enumerated file.
SyncAllProfiles(url, fs, log, clock, listing, strategy, faultsOf) ==
    LET kept == SelectSeq(listing, IsLocalProfileFile)
        local_files == [i \in DOMAIN kept |-> StripJson(kept[i])]
        Return(done) ==
            [files |-> done.files,
             log |-> LogSync(done.log, done.clock,
                             <<"Synced ", Len(done.results), " profiles">>,
                             "info"),
             clock |-> done.clock,
             results |-> done.results,
             calls |-> done.calls,
             struck |-> done.struck]
    IN  Return(SyncEach(url,
                        [files |-> fs, log |-> log, clock |-> clock,
                         results |-> <<>>, calls |-> <<>>, struck |-> TRUE],
                        local_files, strategy, faultsOf))

-----------------------------------------------------------------------------
(* Inputs *)

\* The four strategy names of resolve_conflict and one name outside them.
Strategies == {"newest", "local", "cloud", "merge", "oldest"}

\* The one profile id of the behaviours that follow a single profile.
RacedIds == {<<"hero">>}

\* cloud_url=None (falsy, written "") or an endpoint.
CloudUrls == {"", "https://cloud.example"}

\* Values a caller gives the field 'name'.
NameValues == {1, 2}

\* Documents as a caller stores them: the empty document, flat documents,
\* a nested mapping, the same document with its keys in another order at
\* both levels, and a document with a different nested mapping only.
CallerDocs ==
    << <<>>,
       << <<"name", 1>> >>,
       << <<"name", 2>> >>,
       << <<"name", 1>>, <<"stats", << <<"STR", 1>>, <<"DEX", 1>> >> >> >>,
       << <<"stats", << <<"DEX", 1>>, <<"STR", 1>> >> >>, <<"name", 1>> >>,
       << <<"stats", << <<"DEX", 2>> >> >> >> >>

\* The document save_local_profile left for << name: 2 >> at clock 0, with
\* and without the key a later push added to the same dict.
SavedEarlier ==
    LET stamped == Put(CallerDocs[3], "last_sync", IsoFormat(0))
    IN  Put(stamped, "sync_hash", GetProfileHash(stamped))

\* Local files an engine can be constructed over: none, an unreadable one,
\* caller documents, documents stamped by an earlier run of the engine, and
\* documents whose last_sync is some other string ("9", and the default).
LocalFiles ==
    {NoFile, CorruptFile}
    \cup {JsonFile(CallerDocs[i]) : i \in DOMAIN CallerDocs}
    \cup {JsonFile(SavedEarlier),
          JsonFile(<< <<"name", 2>>, <<"last_sync", <<9>> >> >>),
          JsonFile(<< <<"name", 2>>, <<"last_sync", EpochDefault>> >>)}

\* Remote shadow files likewise; last_cloud_sync "10" sorts before the
\* default and "9" after every ISO timestamp.
CloudFiles ==
    {NoFile, CorruptFile}
    \cup {JsonFile(CallerDocs[i]) : i \in DOMAIN CallerDocs}
    \cup {JsonFile(Put(CallerDocs[2], "last_cloud_sync", IsoFormat(0))),
          JsonFile(Put(SavedEarlier, "last_cloud_sync", IsoFormat(0))),
          JsonFile(<< <<"name", 1>>, <<"last_cloud_sync", <<9>> >> >>),
          JsonFile(<< <<"name", 1>>, <<"last_cloud_sync", <<1, 0>> >> >>)}

-----------------------------------------------------------------------------
(* State *)

VARIABLES
    cloud_url,   \* self.cloud_url
    files,       \* the files of self.local_dir, by path
    sync_log,    \* self.sync_log
    now,         \* the clock datetime.now() reads
    result,      \* what the last call of sync_profile returned
    last,        \* the last operation: its inputs, what it read and did
    ops,         \* operations performed so far
    faultsLeft,  \* transient faults the environment may still inject
    appended,    \* every entry handed to log_sync by LogCall so far, in order
    returned,    \* what the last call of get_sync_log returned
    batch,       \* what the last call of sync_all_profiles did and returned
    threads,     \* the threads that are inside log_sync, statement by statement
    character    \* a Character object (models/character.py)

vars ==
    <<cloud_url, files, sync_log, now, result, last, ops, faultsLeft,
      appended, returned, batch, threads, character>>

\* The variables that sync_profile and resolve_conflict do not touch.
others == <<appended, returned, batch, threads, character>>

NoneReturned == [limit |-> 0, entries |-> <<>>]

NoBatch == [calls |-> <<>>, results |-> <<>>]

NoThreads == <<>>

NoCharacter == [stats |-> <<>>, skills |-> <<>>]

InitOthers ==
    /\ appended = <<>>
    /\ returned = NoneReturned
    /\ batch = NoBatch
    /\ threads = NoThreads
    /\ character = NoCharacter

NoResult == Result("none", "none", None)

\* pre, pre_log and pre_now are the files, the log and the clock when the
\* operation began; prev_* say what the operation before it was.  ahead is
\* the set of ids whose remote file the engine wrote after its last write
\* to their local file, in a call whose writes all succeeded and with no
\* engine write to either file since; was_ahead is that set when the
\* operation began.
NoCall ==
    [op |-> "none", profile_id |-> <<>>, strategy |-> "", faults |-> NoFaults,
     local_profile |-> None, cloud_profile |-> None, resolved |-> None,
     saved |-> FALSE, pushed |-> FALSE,
     pre |-> [p \in Paths |-> NoFile], pre_log |-> <<>>, pre_now |-> 0,
     prev_op |-> "none", prev_id |-> <<>>, prev_faults |-> NoFaults,
     ahead |-> {}, was_ahead |-> {}]

\* The ids in `ahead` after a call of sync_profile for profile_id: a push
\* that succeeded, after a save that succeeded if the branch saves, is the
\* engine's latest write for the id; any other call that opened one of the
\* two files for writing ends the lead.
AheadAfter(ahead, profile_id, r) ==
    IF r.pushed /\ (r.io.write_local => r.saved)
    THEN ahead \cup {profile_id}
    ELSE IF r.io.write_local \/ r.io.write_cloud THEN ahead \ {profile_id}
    ELSE ahead

\* __init__ over a directory that already holds profile files.  The files
\* of 'hero' are drawn from the full sets; 'mage' has at most a local
\* document.
Init ==
    /\ cloud_url \in CloudUrls
    /\ \E lf \in LocalFiles, cf \in CloudFiles,
          other \in {NoFile, JsonFile(CallerDocs[3])} :
          files = [p \in Paths |->
                      IF p = LocalPath(<<"hero">>) THEN lf
                      ELSE IF p = CloudPath(<<"hero">>) THEN cf
                      ELSE IF p = LocalPath(<<"mage">>) THEN other
                      ELSE NoFile]
    /\ sync_log = <<>>
    /\ now = 1
    /\ result = NoResult
    /\ last = NoCall
    /\ ops = 0
    /\ faultsLeft = MaxFaults
    /\ InitOthers

\* One call of sync_profile(profile_id, strategy) for an id of `ids`, in a
\* behaviour of at most `limit` operations.
SyncCall(limit, ids) ==
    /\ ops < limit
    /\ \E profile_id \in ids, strategy \in Strategies,
          faults \in {NoFaults} \cup (IF faultsLeft > 0
                                        THEN OneFault \cup {BothReadsFault}
                                        ELSE {}) :
          \E r \in {SyncProfile(cloud_url, files, sync_log, now, profile_id,
                              strategy, faults)} :
              /\ FaultsStrike(faults, r.io)
              /\ files' = r.files
              /\ sync_log' = r.log
              /\ now' = r.clock
              /\ result' = r.result
              /\ last' = [op |-> "sync", profile_id |-> profile_id,
                          strategy |-> strategy, faults |-> faults,
                          local_profile |-> r.local_profile,
                          cloud_profile |-> r.cloud_profile,
                          resolved |-> r.resolved,
                          saved |-> r.saved, pushed |-> r.pushed,
                          pre |-> files, pre_log |-> sync_log,
                          pre_now |-> now,
                          prev_op |-> last.op, prev_id |-> last.profile_id,
                          prev_faults |-> last.faults,
                          ahead |-> AheadAfter(last.ahead, profile_id, r),
                          was_ahead |-> last.ahead]
              /\ faultsLeft' = IF faults = NoFaults THEN faultsLeft
                               ELSE faultsLeft - 1
    /\ ops' = ops + 1
    /\ UNCHANGED <<cloud_url, others>>

Sync == SyncCall(MaxOps, ProfileIds)

\* The caller, who owns the profile body, changes the field 'name' of the
\* local document between two calls of the engine; the engine's keys stay as
\* they are.
EditCall(limit, ids) ==
    /\ ops < limit
    /\ \E profile_id \in ids, v \in NameValues :
          LET file == files[LocalPath(profile_id)]
          IN  /\ file.kind = "json"
              /\ GetOr(file.doc, "name", 0) # v
              /\ files' = [files EXCEPT ![LocalPath(profile_id)] =
                              JsonFile(Put(file.doc, "name", v))]
              /\ last' = [NoCall EXCEPT !.op = "edit",
                            !.profile_id = profile_id, !.pre = files,
                            !.pre_log = sync_log, !.pre_now = now,
                            !.prev_op = last.op, !.prev_id = last.profile_id,
                            !.prev_faults = last.faults,
                            !.ahead = last.ahead, !.was_ahead = last.ahead]
    /\ ops' = ops + 1
    /\ UNCHANGED <<cloud_url, sync_log, now, result, faultsLeft, others>>

CallerEdit == EditCall(MaxOps, ProfileIds)

Next == Sync \/ CallerEdit

Spec == Init /\ [][Next]_vars

-----------------------------------------------------------------------------
(* sync_profile on replicas the engine has not written yet *)

\* Files whose documents carry none of the engine's keys.
FreshFiles == {NoFile} \cup {JsonFile(CallerDocs[i]) : i \in DOMAIN CallerDocs}

InitFresh ==
    /\ cloud_url \in CloudUrls
    /\ \E lf \in FreshFiles, cf \in FreshFiles,
          other \in {NoFile, JsonFile(CallerDocs[3])} :
          files = [p \in Paths |->
                      IF p = LocalPath(<<"hero">>) THEN lf
                      ELSE IF p = CloudPath(<<"hero">>) THEN cf
                      ELSE IF p = LocalPath(<<"mage">>) THEN other
                      ELSE NoFile]
    /\ sync_log = <<>>
    /\ now = 1
    /\ result = NoResult
    /\ last = NoCall
    /\ ops = 0
    /\ faultsLeft = MaxFaults
    /\ InitOthers

\* Nothing but calls of sync_profile.
NextFresh == Sync

SpecFresh == InitFresh /\ [][NextFresh]_vars

-----------------------------------------------------------------------------
(* sync_profile, a caller edit, sync_profile again *)

\* One profile whose replicas the engine has not written yet.
InitEdit ==
    /\ cloud_url \in CloudUrls
    /\ \E lf \in {NoFile, JsonFile(CallerDocs[2]), JsonFile(CallerDocs[4])},
          cf \in {NoFile, JsonFile(CallerDocs[2]), JsonFile(CallerDocs[3])} :
          files = [p \in Paths |->
                      IF p = LocalPath(<<"hero">>) THEN lf
                      ELSE IF p = CloudPath(<<"hero">>) THEN cf
                      ELSE NoFile]
    /\ sync_log = <<>>
    /\ now = 1
    /\ result = NoResult
    /\ last = NoCall
    /\ ops = 0
    /\ faultsLeft = MaxFaults
    /\ InitOthers

SyncHero == SyncCall(MaxEditOps, RacedIds)

EditHero == EditCall(MaxEditOps, RacedIds)

NextEdit == SyncHero \/ EditHero

SpecEdit == InitEdit /\ [][NextEdit]_vars

-----------------------------------------------------------------------------
(* resolve_conflict called on its own *)

\* Dicts json.load can return from a local file and from a remote shadow.
LocalDocs == {f.doc : f \in {g \in LocalFiles : g.kind = "json"}}

CloudDocs == {f.doc : f \in {g \in CloudFiles : g.kind = "json"}}

\* An engine over an empty directory.
InitResolve ==
    /\ cloud_url \in CloudUrls
    /\ files = [p \in Paths |-> NoFile]
    /\ sync_log = <<>>
    /\ now = 1
    /\ result = NoResult
    /\ last = NoCall
    /\ ops = 0
    /\ faultsLeft = MaxFaults
    /\ InitOthers

\* One call of resolve_conflict(local_profile, cloud_profile, strategy).
ResolveCall ==
    /\ ops < MaxOps
    /\ \E local_profile \in LocalDocs, cloud_profile \in CloudDocs,
          strategy \in Strategies :
          \E r \in {ResolveConflict(local_profile, cloud_profile, strategy,
                                   sync_log, now)} :
              /\ sync_log' = r.log
              /\ last' = [NoCall EXCEPT !.op = "resolve",
                            !.strategy = strategy,
                            !.local_profile = Some(local_profile),
                            !.cloud_profile = Some(cloud_profile),
                            !.resolved = Some(r.doc),
                            !.pre = files, !.pre_log = sync_log,
                            !.pre_now = now,
                            !.prev_op = last.op]
    /\ ops' = ops + 1
    /\ UNCHANGED <<cloud_url, files, now, result, faultsLeft, others>>

NextResolve == ResolveCall

SpecResolve == InitResolve /\ [][NextResolve]_vars

-----------------------------------------------------------------------------
(* log_sync and get_sync_log called on their own *)

\* Messages and levels handed to log_sync.
LogMessages ==
    {<<"Saved local profile ", <<"hero">>>>, <<"Synced ", 0, " profiles">>}

LogLevels == {"info", "success", "error"}

\* Limits handed to get_sync_log: none, one, the default, the cap and the
\* 1000 of a caller who wants everything.
Limits == {0, 1, 20, LogCap, 1000}

\* Lengths of the log the calls start from: a fresh engine, one entry, and
\* a log one short of the cap and at the cap.
LogLens == {0, 1, LogCap - 1, LogCap}

\* An engine over an empty directory on which sync_all_profiles has been
\* called some number of times, each call logging "Synced 0 profiles" at
\* its own time.
InitLog ==
    /\ cloud_url \in CloudUrls
    /\ files = [p \in Paths |-> NoFile]
    /\ \E n \in LogLens :
          /\ sync_log = [i \in 1..n |->
                            LogEntry(i, <<"Synced ", 0, " profiles">>, "info")]
          /\ now = n + 1
    /\ appended = sync_log
    /\ returned = NoneReturned
    /\ batch = NoBatch
    /\ threads = NoThreads
    /\ character = NoCharacter
    /\ result = NoResult
    /\ last = NoCall
    /\ ops = 0
    /\ faultsLeft = MaxFaults

\* One call of log_sync(message, level); time passes between calls.
LogCall ==
    /\ ops < MaxOps
    /\ \E message \in LogMessages, level \in LogLevels :
          /\ sync_log' = LogSync(sync_log, now, message, level)
          /\ appended' = Append(appended, LogEntry(now, message, level))
    /\ now' = now + 1
    /\ last' = [NoCall EXCEPT !.op = "log", !.pre = files,
                  !.pre_log = sync_log, !.pre_now = now, !.prev_op = last.op]
    /\ ops' = ops + 1
    /\ UNCHANGED <<cloud_url, files, result, faultsLeft, returned, batch,
                   threads, character>>

\* One call of get_sync_log(limit).
GetLog ==
    /\ ops < MaxOps
    /\ \E limit \in Limits :
          returned' = [limit |-> limit, entries |-> GetSyncLog(sync_log, limit)]
    /\ last' = [NoCall EXCEPT !.op = "get_log", !.pre = files,
                  !.pre_log = sync_log, !.pre_now = now, !.prev_op = last.op]
    /\ ops' = ops + 1
    /\ UNCHANGED <<cloud_url, files, sync_log, now, result, faultsLeft,
                   appended, batch, threads, character>>

NextLog == LogCall \/ GetLog

SpecLog == InitLog /\ [][NextLog]_vars

-----------------------------------------------------------------------------
(* log_sync called from several threads *)

\* The statements of log_sync are the steps; the interpreter may switch
\* threads between any two of them.  list.append and the slice are single
\* operations on the list; the assignment of line 211 stores the slice
\* that was taken before.

Threads == 1..NumThreads

\* A thread outside log_sync.
IdleThread ==
    [pc |-> "idle", log_entry |-> LogEntry(0, <<>>, ""), slice |-> <<>>]

\* An engine whose log holds n entries and that several threads share.
InitThreads ==
    /\ cloud_url \in CloudUrls
    /\ files = [p \in Paths |-> NoFile]
    /\ \E n \in LogLens :
          /\ sync_log = [i \in 1..n |->
                            LogEntry(i, <<"Synced ", 0, " profiles">>, "info")]
          /\ now = n + 1
    /\ appended = sync_log
    /\ returned = NoneReturned
    /\ batch = NoBatch
    /\ threads = [t \in Threads |-> IdleThread]
    /\ character = NoCharacter
    /\ result = NoResult
    /\ last = NoCall
    /\ ops = 0
    /\ faultsLeft = MaxFaults

\* Lines 202-206: the thread enters log_sync and builds log_entry.
EnterLogSync(t) ==
    /\ ops < MaxOps
    /\ threads[t].pc = "idle"
    /\ \E message \in LogMessages :
          threads' = [threads EXCEPT
                         ![t] = [pc |-> "append",
                                 log_entry |-> LogEntry(now, message, "info"),
                                 slice |-> <<>>]]
    /\ now' = now + 1
    /\ ops' = ops + 1
    /\ UNCHANGED <<cloud_url, files, sync_log, result, last, faultsLeft,
                   appended, returned, batch, character>>

\* Line 207: self.sync_log.append(log_entry)
AppendEntry(t) ==
    /\ threads[t].pc = "append"
    /\ sync_log' = Append(sync_log, threads[t].log_entry)
    /\ appended' = Append(appended, threads[t].log_entry)
    /\ threads' = [threads EXCEPT ![t].pc = "test"]
    /\ UNCHANGED <<cloud_url, files, now, result, last, ops, faultsLeft,
                   returned, batch, character>>

\* Line 210: if len(self.sync_log) > 100
TestLength(t) ==
    /\ threads[t].pc = "test"
    /\ threads' = [threads EXCEPT
                      ![t].pc = IF Len(sync_log) > LogCap THEN "slice"
                                ELSE "idle"]
    /\ UNCHANGED <<cloud_url, files, sync_log, now, result, last, ops,
                   faultsLeft, appended, returned, batch, character>>

\* Line 211, right-hand side: self.sync_log[-100:]
TakeSlice(t) ==
    /\ threads[t].pc = "slice"
    /\ threads' = [threads EXCEPT
                      ![t].pc = "store",
                      ![t].slice = SliceFrom(sync_log, -LogCap)]
    /\ UNCHANGED <<cloud_url, files, sync_log, now, result, last, ops,
                   faultsLeft, appended, returned, batch, character>>

\* Line 211, assignment: self.sync_log = <the slice>
StoreSlice(t) ==
    /\ threads[t].pc = "store"
    /\ sync_log' = threads[t].slice
    /\ threads' = [threads EXCEPT ![t].pc = "idle", ![t].slice = <<>>]
    /\ UNCHANGED <<cloud_url, files, now, result, last, ops, faultsLeft,
                   appended, returned, batch, character>>

\* Limits a reader passes: the default and one that asks for everything.
ReaderLimits == {20, 1000}

\* A reader thread calls get_sync_log(limit) at any moment.
ReadLog ==
    /\ \E limit \in ReaderLimits :
          returned' = [limit |-> limit, entries |-> GetSyncLog(sync_log, limit)]
    /\ UNCHANGED <<cloud_url, files, sync_log, now, result, last, ops,
                   faultsLeft, appended, batch, threads, character>>

NextThreads ==
    \/ \E t \in Threads :
          \/ EnterLogSync(t)
          \/ AppendEntry(t)
          \/ TestLength(t)
          \/ TakeSlice(t)
          \/ StoreSlice(t)
    \/ ReadLog

SpecThreads == InitThreads /\ [][NextThreads]_vars

-----------------------------------------------------------------------------
(* sync_profile called from several threads, I/O call by I/O call *)

\* sync_profile takes no lock, so between any two of its I/O calls another
\* thread may run.  The steps are the two reads, the decision (with
\* resolve_conflict, which does no I/O) and the writes.

\* The branch sync_profile takes for the two values read.
CaseOf(local_profile, cloud_profile) ==
    IF Truthy(local_profile) /\ ~Truthy(cloud_profile)
    THEN "uploaded_to_cloud"
    ELSE IF Truthy(cloud_profile) /\ ~Truthy(local_profile)
    THEN "downloaded_from_cloud"
    ELSE IF Truthy(local_profile) /\ Truthy(cloud_profile)
    THEN IF GetProfileHash(local_profile.doc)
               = GetProfileHash(cloud_profile.doc)
         THEN "already_synced"
         ELSE "conflict_resolved"
    ELSE "profile_not_found"

\* A slip in the conflict branch: the push before the save.
ConflictWritesPushFirst == <<"push", "save">>

\* Lines 167-168: save_local_profile, then push_cloud_profile.
ConflictWrites == <<"save", "push">>

\* The writes a branch performs, in the order of the code.
WritesOf(action) ==
    IF action = "uploaded_to_cloud" THEN <<"push">>
    ELSE IF action = "downloaded_from_cloud" THEN <<"save">>
    ELSE IF action = "conflict_resolved" THEN ConflictWrites
    ELSE <<>>

\* A thread outside sync_profile.  In a call: the arguments, the two values
\* read, the branch, the dict handed to the writes (they set keys on it),
\* the writes still to do and the I/O calls done so far.
IdleCaller ==
    [pc |-> "idle", profile_id |-> <<>>, strategy |-> "",
     local_profile |-> None, cloud_profile |-> None, action |-> "none",
     doc |-> <<>>, todo |-> <<>>, done |-> <<>>]

InitPipeline ==
    /\ cloud_url \in CloudUrls
    /\ \E lf \in {NoFile, JsonFile(CallerDocs[2])},
          cf \in {NoFile, JsonFile(CallerDocs[2]), JsonFile(CallerDocs[3])} :
          files = [p \in Paths |->
                      IF p = LocalPath(<<"hero">>) THEN lf
                      ELSE IF p = CloudPath(<<"hero">>) THEN cf
                      ELSE NoFile]
    /\ sync_log = <<>>
    /\ now = 1
    /\ result = NoResult
    /\ last = NoCall
    /\ ops = 0
    /\ faultsLeft = MaxFaults
    /\ appended = <<>>
    /\ returned = NoneReturned
    /\ batch = NoBatch
    /\ threads = [t \in Threads |-> IdleCaller]
    /\ character = NoCharacter

\* The thread calls sync_profile(profile_id, strategy).
EnterSync(t) ==
    /\ ops < MaxOps
    /\ threads[t].pc = "idle"
    /\ \E profile_id \in RacedIds, strategy \in Strategies :
          threads' = [threads EXCEPT
                         ![t] = [IdleCaller EXCEPT
                                    !.pc = "load",
                                    !.profile_id = profile_id,
                                    !.strategy = strategy]]
    /\ ops' = ops + 1
    /\ UNCHANGED <<cloud_url, files, sync_log, now, result, last, faultsLeft,
                   appended, returned, batch, character>>

\* Line 133: local_profile = self.load_local_profile(profile_id)
LoadStep(t) ==
    /\ threads[t].pc = "load"
    /\ \E r \in {LoadLocalProfile(files, sync_log, now,
                                   threads[t].profile_id, FALSE)} :
          /\ sync_log' = r.log
          /\ threads' = [threads EXCEPT
                            ![t].pc = "fetch",
                            ![t].local_profile = r.ret,
                            ![t].done = Append(@, "load")]
    /\ UNCHANGED <<cloud_url, files, now, result, last, ops, faultsLeft,
                   appended, returned, batch, character>>

\* Line 134: cloud_profile = self.fetch_cloud_profile(profile_id)
FetchStep(t) ==
    /\ threads[t].pc = "fetch"
    /\ \E r \in {FetchCloudProfile(cloud_url, files, sync_log, now,
                                    threads[t].profile_id, FALSE)} :
          /\ sync_log' = r.log
          /\ threads' = [threads EXCEPT
                            ![t].pc = "decide",
                            ![t].cloud_profile = r.ret,
                            ![t].done = Append(@, "fetch")]
    /\ UNCHANGED <<cloud_url, files, now, result, last, ops, faultsLeft,
                   appended, returned, batch, character>>

\* Lines 137-166: the case is chosen and, on a conflict, resolve_conflict
\* is called.  A branch without writes returns here.
DecideStep(t) ==
    /\ threads[t].pc = "decide"
    /\ LET me == threads[t]
           action == CaseOf(me.local_profile, me.cloud_profile)
           res == ResolveConflict(me.local_profile.doc, me.cloud_profile.doc,
                                  me.strategy, sync_log, now)
       IN  /\ sync_log' = IF action = "conflict_resolved" THEN res.log
                          ELSE sync_log
           /\ threads' = [threads EXCEPT
                  ![t] = [me EXCEPT
                      !.pc = IF WritesOf(action) = <<>> THEN "idle"
                             ELSE "write",
                      !.action = action,
                      !.doc = IF action = "conflict_resolved" THEN res.doc
                              ELSE IF action = "uploaded_to_cloud"
                              THEN me.local_profile.doc
                              ELSE me.cloud_profile.doc,
                      !.todo = WritesOf(action),
                      !.done = Append(@, "decide")]]
           /\ result' = IF action = "already_synced"
                        THEN Result("synced", action, me.local_profile)
                        ELSE IF action = "profile_not_found"
                        THEN Result("error", action, None)
                        ELSE result
    /\ UNCHANGED <<cloud_url, files, now, last, ops, faultsLeft, appended,
                   returned, batch, character>>

\* The dict sync_profile returns after its last write.
Returned(me, doc) ==
    IF me.action = "conflict_resolved"
    THEN ResultWithStrategy("synced", me.action, Some(doc), me.strategy)
    ELSE Result("synced", me.action, Some(doc))

\* One write of the branch: save_local_profile (lines 147, 167) or
\* push_cloud_profile (lines 138, 168); after the last one the call
\* returns.
WriteStep(t) ==
    /\ threads[t].pc = "write"
    /\ LET me == threads[t] IN
       \E w \in {IF Head(me.todo) = "save"
                 THEN SaveLocalProfile(files, sync_log, now, me.profile_id,
                                       me.doc, "ok")
                 ELSE PushCloudProfile(cloud_url, files, sync_log, now,
                                       me.profile_id, me.doc, "ok")} :
          /\ files' = w.files
          /\ sync_log' = w.log
          /\ now' = w.clock
          /\ threads' = [threads EXCEPT
                 ![t] = [me EXCEPT
                     !.pc = IF Tail(me.todo) = <<>> THEN "idle" ELSE "write",
                     !.doc = w.doc,
                     !.todo = Tail(me.todo),
                     !.done = Append(@, Head(me.todo))]]
          /\ result' = IF Tail(me.todo) = <<>> THEN Returned(me, w.doc)
                       ELSE result
    /\ UNCHANGED <<cloud_url, last, ops, faultsLeft, appended, returned,
                   batch, character>>

NextPipeline ==
    \E t \in Threads :
        \/ EnterSync(t)
        \/ LoadStep(t)
        \/ FetchStep(t)
        \/ DecideStep(t)
        \/ WriteStep(t)

SpecPipeline == InitPipeline /\ [][NextPipeline]_vars

-----------------------------------------------------------------------------
(* sync_all_profiles *)

\* Profile ids of the batch: two plain names and a name that contains the
\* text ".json".
BatchIds == {<<"hero">>, <<"mage">>, <<"hero", ".json">>}

BatchPaths ==
    {LocalPath(i) : i \in BatchIds} \cup {CloudPath(i) : i \in BatchIds}

\* Every order of the elements of a set.
Orders(S) ==
    {s \in [1..Cardinality(S) -> S] :
        \A i, j \in DOMAIN s : i # j => s[i] # s[j]}

\* os.listdir(self.local_dir): the names of the existing files in an order
\* of the file system's choosing.  The comprehension keeps the order of the
\* names it keeps, so only their order is varied; the remote shadows come
\* first.
ListDir(fs) ==
    LET names == {p \in DOMAIN fs : fs[p].kind # "absent"}
        shadows == {p \in names : p[1] = "cloud_"}
        first == CHOOSE s \in Orders(shadows) : TRUE
    IN  {first \o rest : rest \in Orders(names \ shadows)}

\* A directory in which each id may have a local document, and hero a
\* remote one as well.
InitBatch ==
    /\ cloud_url \in CloudUrls
    /\ \E hero \in {NoFile, JsonFile(CallerDocs[2]), CorruptFile},
          hero_cloud \in {NoFile, JsonFile(CallerDocs[3])},
          mage \in {NoFile, JsonFile(CallerDocs[3])},
          dotted \in {NoFile, JsonFile(CallerDocs[2])} :
          files = [p \in BatchPaths |->
                      IF p = LocalPath(<<"hero">>) THEN hero
                      ELSE IF p = CloudPath(<<"hero">>) THEN hero_cloud
                      ELSE IF p = LocalPath(<<"mage">>) THEN mage
                      ELSE IF p = LocalPath(<<"hero", ".json">>) THEN dotted
                      ELSE NoFile]
    /\ sync_log = <<>>
    /\ now = 1
    /\ result = NoResult
    /\ last = NoCall
    /\ ops = 0
    /\ faultsLeft = MaxFaults
    /\ InitOthers

\* One call of sync_all_profiles(strategy); `fault` strikes the call of
\* sync_profile for the enumerated file number `at` (0: no fault).
SyncAll ==
    /\ ops < MaxOps
    /\ \E strategy \in Strategies, listing \in ListDir(files) :
        \E at \in 0..(IF faultsLeft > 0
                      THEN Len(SelectSeq(listing, IsLocalProfileFile))
                      ELSE 0),
           fault \in OneFault \cup {BothReadsFault} :
        \E r \in {SyncAllProfiles(cloud_url, files, sync_log, now, listing,
                                  strategy,
                                  [i \in 1..Len(listing) |->
                                      IF i = at THEN fault ELSE NoFaults])} :
            /\ r.struck
            /\ at = 0 => fault = BothReadsFault
            /\ files' = r.files
            /\ sync_log' = r.log
            /\ now' = r.clock
            /\ batch' = [calls |-> r.calls, results |-> r.results]
            /\ last' = [NoCall EXCEPT !.op = "sync_all",
                          !.strategy = strategy,
                          !.faults = IF at = 0 THEN NoFaults ELSE fault,
                          !.pre = files,
                          !.pre_log = sync_log, !.pre_now = now,
                          !.prev_op = last.op]
            /\ faultsLeft' = IF at = 0 THEN faultsLeft ELSE faultsLeft - 1
    /\ ops' = ops + 1
    /\ UNCHANGED <<cloud_url, result, appended, returned, threads,
                   character>>

NextBatch == SyncAll

SpecBatch == InitBatch /\ [][NextBatch]_vars

-----------------------------------------------------------------------------
(* The Character model (src/backend/models/character.py) *)

\* Character.__init__: the six stats at 10, no skills.  (name, class_type,
\* level, equipment, appearance and the two dates are not read by the
\* methods modelled here.)
NewCharacter ==
    [stats |-> << <<"STR", 10>>, <<"DEX", 10>>, <<"INT", 10>>,
                  <<"WIS", 10>>, <<"CON", 10>>, <<"CHA", 10>> >>,
     skills |-> <<>>]

\* A slip in set_stat: the value is stored whatever the name.
SetStatUnguarded(self, stat_name, value) ==
    [self EXCEPT !.stats = Put(self.stats, stat_name, value)]

\* set_stat: if stat_name in self.stats: self.stats[stat_name] = value
SetStat(self, stat_name, value) ==
    IF Has(self.stats, stat_name)
    THEN [self EXCEPT !.stats = Put(self.stats, stat_name, value)]
    ELSE self

\* get_stat: self.stats.get(stat_name, 0)
GetStat(self, stat_name) == GetOr(self.stats, stat_name, 0)

\* A slip in learn_skill: the skill is appended whether known or not.
LearnSkillAgain(self, skill_id) ==
    [self EXCEPT !.skills = Append(self.skills, skill_id)]

\* learn_skill: if skill_id not in self.skills: self.skills.append(skill_id)
LearnSkill(self, skill_id) ==
    IF \E i \in DOMAIN self.skills : self.skills[i] = skill_id
    THEN self
    ELSE [self EXCEPT !.skills = Append(self.skills, skill_id)]

\* can_use_skill: skill_id in self.skills
CanUseSkill(self, skill_id) ==
    \E i \in DOMAIN self.skills : self.skills[i] = skill_id

\* Stat names passed by callers: the six of the model, one the model does
\* not have, and the empty string.
StatNameInputs == {"STR", "DEX", "INT", "WIS", "CON", "CHA", "LUK", ""}

\* Stat values passed by callers.
StatValues == {-1, 0, 10, 18}

SkillIds == {"fireball", "heal", "stealth"}

\* No method of the character called yet; `learned` collects the skill ids
\* passed to learn_skill so far.
NoCharacterCall ==
    [op |-> "none", stat_name |-> "", value |-> 0, skill_id |-> "",
     pre |-> NewCharacter, learned |-> {},
     prev_op |-> "none", prev_name |-> "", prev_value |-> 0]

InitCharacter ==
    /\ character = NewCharacter
    /\ last = NoCharacterCall
    /\ result = NoResult
    /\ ops = 0
    /\ cloud_url = ""
    /\ files = [p \in Paths |-> NoFile]
    /\ sync_log = <<>>
    /\ now = 1
    /\ faultsLeft = MaxFaults
    /\ appended = <<>>
    /\ returned = NoneReturned
    /\ batch = NoBatch
    /\ threads = NoThreads

\* What a call on the character records about itself.
CharacterCall(op, stat_name, value, skill_id) ==
    [op |-> op, stat_name |-> stat_name, value |-> value,
     skill_id |-> skill_id, pre |-> character,
     learned |-> IF op = "learn_skill" THEN last.learned \cup {skill_id}
                 ELSE last.learned,
     prev_op |-> last.op, prev_name |-> last.stat_name,
     prev_value |-> last.value]

SetStatCall ==
    /\ ops < MaxOps
    /\ \E stat_name \in StatNameInputs, value \in StatValues :
          /\ character' = SetStat(character, stat_name, value)
          /\ last' = CharacterCall("set_stat", stat_name, value, "")
    /\ ops' = ops + 1
    /\ UNCHANGED <<cloud_url, files, sync_log, now, result, faultsLeft,
                   appended, returned, batch, threads>>

GetStatCall ==
    /\ ops < MaxOps
    /\ \E stat_name \in StatNameInputs :
          /\ result' = [ret |-> GetStat(character, stat_name)]
          /\ last' = CharacterCall("get_stat", stat_name, 0, "")
    /\ ops' = ops + 1
    /\ UNCHANGED <<cloud_url, files, sync_log, now, faultsLeft, appended,
                   returned, batch, threads, character>>

LearnSkillCall ==
    /\ ops < MaxOps
    /\ \E skill_id \in SkillIds :
          /\ character' = LearnSkill(character, skill_id)
          /\ last' = CharacterCall("learn_skill", "", 0, skill_id)
    /\ ops' = ops + 1
    /\ UNCHANGED <<cloud_url, files, sync_log, now, result, faultsLeft,
                   appended, returned, batch, threads>>

CanUseSkillCall ==
    /\ ops < MaxOps
    /\ \E skill_id \in SkillIds :
          /\ result' = [ret |-> CanUseSkill(character, skill_id)]
          /\ last' = CharacterCall("can_use_skill", "", 0, skill_id)
    /\ ops' = ops + 1
    /\ UNCHANGED <<cloud_url, files, sync_log, now, faultsLeft, appended,
                   returned, batch, threads, character>>

NextCharacter ==
    SetStatCall \/ GetStatCall \/ LearnSkillCall \/ CanUseSkillCall

SpecCharacter == InitCharacter /\ [][NextCharacter]_vars

-----------------------------------------------------------------------------
(* An engine constructed without cloud_url *)

\* ProfileSync(local_dir): cloud_url is None.  The directory may hold
\* shadow files that an engine with an endpoint left there.
InitNoRemote ==
    /\ cloud_url = ""
    /\ \E lf \in LocalFiles,
          cf \in {NoFile, JsonFile(CallerDocs[3]),
                  JsonFile(Put(CallerDocs[2], "last_cloud_sync", IsoFormat(0)))},
          other \in {NoFile, JsonFile(CallerDocs[3])} :
          files = [p \in Paths |->
                      IF p = LocalPath(<<"hero">>) THEN lf
                      ELSE IF p = CloudPath(<<"hero">>) THEN cf
                      ELSE IF p = LocalPath(<<"mage">>) THEN other
                      ELSE NoFile]
    /\ sync_log = <<>>
    /\ now = 1
    /\ result = NoResult
    /\ last = NoCall
    /\ ops = 0
    /\ faultsLeft = MaxFaults
    /\ InitOthers

NextNoRemote == Sync \/ SyncAll \/ CallerEdit

SpecNoRemote == InitNoRemote /\ [][NextNoRemote]_vars

-----------------------------------------------------------------------------
(* Vocabulary of the properties *)

\* The key set of a document.
Keys(d) == {d[i][1] : i \in DOMAIN d}

\* Equal as key/value documents: same keys, same values, whatever the order.
DictEq(a, b) ==
    /\ Keys(a) = Keys(b)
    /\ \A k \in Keys(a) : Get(a, k) = Get(b, k)

\* The keys the engine writes.
MetaKeys == {"last_sync", "sync_hash", "last_cloud_sync"}

\* The keys a caller owns: every key but the three the engine writes.
CallerPart(d) == SelectSeq(d, LAMBDA kv : kv[1] \notin MetaKeys)

AgreeOnCallerFields(a, b) == DictEq(CallerPart(a), CallerPart(b))

\* a > b on strings, said with the first position where they differ.
LexGreater(a, b) ==
    \E i \in 1..Len(a) :
        /\ \A j \in 1..(i - 1) : j <= Len(b) /\ a[j] = b[j]
        /\ (i > Len(b) \/ (i <= Len(b) /\ a[i] > b[i]))

KnownStrategies == {"newest", "local", "cloud", "merge"}

\* The last operation was sync_profile with a remote endpoint configured
\* and no injected fault, over files that were absent or well formed.
PlainSync ==
    /\ last.op = "sync"
    /\ cloud_url # ""
    /\ last.faults = NoFaults
    /\ last.pre[LocalPath(last.profile_id)].kind # "corrupt"
    /\ last.pre[CloudPath(last.profile_id)].kind # "corrupt"

PreLocal == last.pre[LocalPath(last.profile_id)]

PreCloud == last.pre[CloudPath(last.profile_id)]

PostLocal == files[LocalPath(last.profile_id)]

PostCloud == files[CloudPath(last.profile_id)]

\* A document is stored for the id on the replica.
Stored(file) == file.kind = "json"

\* A document with at least one key is stored.
StoredNonEmpty(file) == file.kind = "json" /\ file.doc # <<>>

-----------------------------------------------------------------------------
(* Properties *)

\* C1 (idempotence of sync): when sync_profile(id) is called twice in
\* succession with a remote configured, no fault and nothing written in
\* between, and a replica held a non-empty document for id, the second call
\* returns already_synced.
C1_SecondSyncAlreadySynced ==
    ( /\ PlainSync
      /\ last.prev_op = "sync"
      /\ last.prev_id = last.profile_id
      /\ last.prev_faults = NoFaults
      /\ (StoredNonEmpty(PreLocal) \/ StoredNonEmpty(PreCloud)) )
    => result.action = "already_synced"

\* C2 (local-only case): if the local replica holds a (non-empty) document
\* and the remote none, then after sync the remote holds a document whose
\* digest equals the digest of the pre-sync local document and the action is
\* uploaded_to_cloud.
C2_UploadDigestEqual ==
    (PlainSync /\ StoredNonEmpty(PreLocal) /\ PreCloud.kind = "absent")
    => /\ result.action = "uploaded_to_cloud"
       /\ Stored(PostCloud)
       /\ GetProfileHash(PostCloud.doc) = GetProfileHash(PreLocal.doc)

\* C3 (remote-only case): if the remote replica holds a (non-empty) document
\* and the local none, then after sync the local replica holds a document
\* digest-equal to the pre-sync remote document, the remote document is
\* unchanged and the action is downloaded_from_cloud.
C3_DownloadDigestEqual ==
    (PlainSync /\ StoredNonEmpty(PreCloud) /\ PreLocal.kind = "absent")
    => /\ result.action = "downloaded_from_cloud"
       /\ PostCloud = PreCloud
       /\ Stored(PostLocal)
       /\ GetProfileHash(PostLocal.doc) = GetProfileHash(PreCloud.doc)

\* C4 (four-case decision): the branch sync takes is decided only by whether
\* a document is stored for the id on each replica, whatever its content,
\* the document with no keys included.
C4_BranchByPresence ==
    PlainSync
    => /\ (Stored(PreLocal) /\ ~Stored(PreCloud))
            => result.action = "uploaded_to_cloud"
       /\ (Stored(PreCloud) /\ ~Stored(PreLocal))
            => result.action = "downloaded_from_cloud"
       /\ (Stored(PreLocal) /\ Stored(PreCloud))
            => result.action \in {"already_synced", "conflict_resolved"}
       /\ (~Stored(PreLocal) /\ ~Stored(PreCloud))
            => result.action = "profile_not_found"

\* C5 (result status): sync returns status error, with action
\* profile_not_found and no profile, if and only if neither read yielded a
\* document; otherwise status synced, whether or not its writes succeeded;
\* and the result has a strategy field exactly when the action is
\* conflict_resolved.
C5_ErrorIffNeitherYields ==
    last.op = "sync"
    => /\ result.status = "error"
            <=> (last.local_profile.none /\ last.cloud_profile.none)
       /\ result.status = "error"
            => (result.action = "profile_not_found" /\ result.profile.none)
       /\ result.status # "error" => result.status = "synced"
       /\ ("strategy" \in DOMAIN result)
            <=> result.action = "conflict_resolved"

\* C6 (conflict persistence): when both replicas hold a document and the
\* digests differ, sync writes the resolved document to both, so that
\* afterwards they agree on every caller-owned field, the local document
\* carries last_sync and sync_hash of this write, the remote document
\* last_cloud_sync of this write, and the result is conflict_resolved with
\* the caller's strategy.
C6_ConflictWrittenToBoth ==
    ( /\ PlainSync
      /\ Stored(PreLocal) /\ Stored(PreCloud)
      /\ GetProfileHash(PreLocal.doc) # GetProfileHash(PreCloud.doc) )
    => /\ result.action = "conflict_resolved"
       /\ "strategy" \in DOMAIN result
       /\ result.strategy = last.strategy
       /\ Stored(PostLocal) /\ Stored(PostCloud)
       /\ AgreeOnCallerFields(PostLocal.doc, PostCloud.doc)
       /\ AgreeOnCallerFields(PostLocal.doc, last.resolved.doc)
       /\ GetOr(PostLocal.doc, "last_sync", <<>>) = IsoFormat(last.pre_now)
       /\ Has(PostLocal.doc, "sync_hash")
       /\ GetOr(PostCloud.doc, "last_cloud_sync", <<>>)
              = IsoFormat(last.pre_now + 1)

\* C7 (strategy newest): resolve_conflict with 'newest' returns the local
\* document, whole, if and only if local.last_sync is the strictly greater
\* string than remote.last_cloud_sync (each "1970-01-01T00:00:00" when
\* absent), and otherwise, equal strings included, the remote document,
\* whole.
C7_NewestByStringCompare ==
    (last.op = "resolve" /\ last.strategy = "newest")
    => LET l == last.local_profile.doc
           c == last.cloud_profile.doc
           lt == IF Has(l, "last_sync") THEN Get(l, "last_sync")
                 ELSE EpochDefault
           ct == IF Has(c, "last_cloud_sync") THEN Get(c, "last_cloud_sync")
                 ELSE EpochDefault
       IN  /\ LexGreater(lt, ct) => last.resolved.doc = l
           /\ ~LexGreater(lt, ct) => last.resolved.doc = c

\* C7 witness: equal strings (both absent) on differing documents, and the
\* remote document was returned.
C7_Witness ==
    /\ last.op = "resolve" /\ last.strategy = "newest"
    /\ ~Has(last.local_profile.doc, "last_sync")
    /\ ~Has(last.cloud_profile.doc, "last_cloud_sync")
    /\ ~DictEq(last.local_profile.doc, last.cloud_profile.doc)
    /\ last.resolved.doc = last.cloud_profile.doc

\* C8 (strategy local): for every conflict resolved with strategy 'local',
\* the returned profile and the documents on both replicas afterwards equal
\* the pre-sync local document on every caller-owned field; no key that only
\* the remote document had survives.
C8_LocalStrategyKeepsLocal ==
    ( /\ PlainSync
      /\ last.strategy = "local"
      /\ Stored(PreLocal) /\ Stored(PreCloud)
      /\ GetProfileHash(PreLocal.doc) # GetProfileHash(PreCloud.doc) )
    => /\ ~result.profile.none
       /\ AgreeOnCallerFields(result.profile.doc, PreLocal.doc)
       /\ Stored(PostLocal) /\ Stored(PostCloud)
       /\ AgreeOnCallerFields(PostLocal.doc, PreLocal.doc)
       /\ AgreeOnCallerFields(PostCloud.doc, PreLocal.doc)

\* C9 (strategy merge): the merged document's keys are the union of the two
\* top-level key sets; a key of the remote document has the remote value,
\* whole; a key only the local document has keeps the local value.
C9_MergeIsShallowUnion ==
    (last.op = "resolve" /\ last.strategy = "merge")
    => LET l == last.local_profile.doc
           c == last.cloud_profile.doc
           m == last.resolved.doc
       IN  /\ Keys(m) = Keys(l) \cup Keys(c)
           /\ Cardinality(Keys(m)) = Len(m)
           /\ \A k \in Keys(c) : Get(m, k) = Get(c, k)
           /\ \A k \in Keys(l) \ Keys(c) : Get(m, k) = Get(l, k)

\* C9 witness: both documents have 'stats' with different nested keys, only
\* the local one has 'name'; the merge has the remote 'stats' whole and the
\* local 'name'.
C9_Witness ==
    /\ last.op = "resolve" /\ last.strategy = "merge"
    /\ Has(last.local_profile.doc, "stats")
    /\ Has(last.cloud_profile.doc, "stats")
    /\ Has(Get(last.local_profile.doc, "stats"), "STR")
    /\ ~Has(Get(last.cloud_profile.doc, "stats"), "STR")
    /\ Has(last.local_profile.doc, "name")
    /\ ~Has(last.cloud_profile.doc, "name")
    /\ ~Has(Get(last.resolved.doc, "stats"), "STR")
    /\ Has(last.resolved.doc, "name")

\* C10 (unknown strategy): for a strategy name outside newest, local, cloud
\* and merge, resolve_conflict returns the local document and appends a log
\* entry that records the fallback.
C10_UnknownStrategyLogged ==
    ( /\ last.op = "resolve"
      /\ last.strategy \notin KnownStrategies
      /\ ~DictEq(last.local_profile.doc, last.cloud_profile.doc) )
    => /\ last.resolved.doc = last.local_profile.doc
       /\ sync_log # last.pre_log

\* The last n entries of a sequence (all of it when it is shorter).
LastN(s, n) ==
    IF n >= Len(s) THEN s ELSE SubSeq(s, Len(s) - n + 1, Len(s))

\* C11 (log cap): whenever a log-producing operation has returned, the log
\* holds at most 100 entries and they are exactly the min(n, 100) most
\* recently appended of the n entries appended so far, in the order they
\* were appended (so an entry leaves only by eviction of the oldest, and a
\* retained entry is neither changed nor moved).
C11_LogIsLastHundred ==
    /\ Len(sync_log) <= LogCap
    /\ sync_log = LastN(appended, LogCap)

\* C11 witness: more than 100 entries have been appended, log_sync has just
\* returned and the oldest entry has been evicted.
C11_Witness ==
    /\ last.op = "log"
    /\ Len(appended) > LogCap
    /\ Len(sync_log) = LogCap
    /\ sync_log[1] # appended[1]

\* C12 (get_log window): get_sync_log(limit) returns the most recent limit
\* entries, that is min(limit, length) of them, oldest first, for every
\* limit, 0 and limits beyond the length included, and leaves the log as it
\* was.
C12_GetLogWindow ==
    last.op = "get_log"
    => /\ Len(returned.entries)
            = (IF returned.limit < Len(sync_log) THEN returned.limit
               ELSE Len(sync_log))
       /\ returned.entries = LastN(sync_log, returned.limit)
       /\ sync_log = last.pre_log

\* C13 (every branch logs): every call of sync_profile, in every branch and
\* with or without a remote configured, appends at least one log entry of
\* level info, success or error before it returns; a call that ends in
\* profile_not_found logs as well.
C13_EverySyncLogs ==
    last.op = "sync"
    => /\ Len(sync_log) > Len(last.pre_log)
       /\ SubSeq(sync_log, 1, Len(last.pre_log)) = last.pre_log
       /\ \A i \in (Len(last.pre_log) + 1)..Len(sync_log) :
              sync_log[i].level \in LogLevels

\* The entries the last call appended to the log.
NewEntries == SubSeq(sync_log, Len(last.pre_log) + 1, Len(sync_log))

\* C14 (store fault degrades to absence): when a read of a replica fails
\* during sync, the call returns, an error-level entry is appended to the
\* log, and the decision is taken as if that replica held no document: a
\* local read fault with a remote document yields downloaded_from_cloud and
\* overwrites the local document, a remote read fault with a local document
\* yields uploaded_to_cloud and overwrites the remote document, and a fault
\* on both yields profile_not_found.
C14_ReadFaultIsAbsence ==
    (last.op = "sync" /\ cloud_url # ""
        /\ (last.faults.read_local \/ last.faults.read_cloud))
    => /\ \E i \in DOMAIN NewEntries : NewEntries[i].level = "error"
       /\ (last.faults.read_local /\ ~last.faults.read_cloud
              /\ Stored(PreCloud))
            => /\ result.action = "downloaded_from_cloud"
               /\ Stored(PostLocal)
               /\ AgreeOnCallerFields(PostLocal.doc, PreCloud.doc)
       /\ (last.faults.read_cloud /\ ~last.faults.read_local
              /\ Stored(PreLocal))
            => /\ result.action = "uploaded_to_cloud"
               /\ Stored(PostCloud)
               /\ AgreeOnCallerFields(PostCloud.doc, PreLocal.doc)
       /\ (last.faults.read_local /\ last.faults.read_cloud)
            => result.action = "profile_not_found"

\* The ids that have a document in the local replica, before the last call.
LocalIdsBefore == {i \in BatchIds : last.pre[LocalPath(i)].kind # "absent"}

\* C15 (sync_all coverage): sync_all calls sync exactly once for each
\* profile id that has a document in the local replica when the ids are
\* enumerated and for no id that exists only as a remote shadow, and
\* returns one result per enumerated id in the order of the enumeration; a
\* profile that fails (error status or failed write) does not keep the
\* others from being synced.
C15_SyncAllCoversLocalIds ==
    last.op = "sync_all"
    => /\ {batch.calls[k] : k \in DOMAIN batch.calls} = LocalIdsBefore
       /\ \A j, k \in DOMAIN batch.calls :
              j # k => batch.calls[j] # batch.calls[k]
       /\ Len(batch.results) = Len(batch.calls)

\* C16 (atomic replica write): a write of a document to a replica is all
\* or nothing for readers: after a call of sync_profile, a write that
\* failed part-way included, each file of the profile is either what it was
\* before the call (a complete document, or absent) or a complete new
\* document, never an empty or partial text.
C16_WriteAllOrNothing ==
    last.op = "sync"
    => /\ (PostLocal = PreLocal \/ Stored(PostLocal))
       /\ (PostCloud = PreCloud \/ Stored(PostCloud))

\* C17 (atomic log append): with two or more threads appending, the
\* append and the trim act as one step: no appended entry is lost other
\* than by eviction of the oldest, so the log is always the most recent
\* part of what was appended, and no reader observes a log of more than 100
\* entries.
C17_AppendAndTrimAtomic ==
    /\ sync_log = LastN(appended, Len(sync_log))
    /\ Len(returned.entries) <= LogCap

\* C18 (metadata placement): starting from replicas whose documents carry
\* none of the engine's keys, after any sequence of calls of sync_profile
\* the key last_cloud_sync appears only in remote documents: no local
\* document contains it.
C18_NoCloudStampInLocal ==
    \A i \in ProfileIds :
        Stored(files[LocalPath(i)])
        => ~Has(files[LocalPath(i)].doc, "last_cloud_sync")

\* The six stats of a character.
SixStats == {"STR", "DEX", "INT", "WIS", "CON", "CHA"}

\* The value stored for a stat, read off the dict itself.
StatOf(c, name) == c.stats[CHOOSE i \in DOMAIN c.stats : c.stats[i][1] = name][2]

\* C19 (character stats): for each of the six stat names and every value v,
\* after set_stat(name, v) get_stat(name) returns v and the other five stats
\* are as before; set_stat with a name outside the six leaves all stats as
\* they were, and get_stat of such a name returns 0.
C19_SetThenGetStat ==
    /\ {character.stats[i][1] : i \in DOMAIN character.stats} = SixStats
    /\ (last.op = "set_stat" /\ last.stat_name \in SixStats)
         => /\ StatOf(character, last.stat_name) = last.value
            /\ \A other \in SixStats \ {last.stat_name} :
                   StatOf(character, other) = StatOf(last.pre, other)
    /\ (last.op = "set_stat" /\ last.stat_name \notin SixStats)
         => character.stats = last.pre.stats
    /\ (last.op = "get_stat" /\ last.stat_name \in SixStats)
         => /\ result.ret = StatOf(character, last.stat_name)
            /\ (last.prev_op = "set_stat" /\ last.prev_name = last.stat_name)
                 => result.ret = last.prev_value
    /\ (last.op = "get_stat" /\ last.stat_name \notin SixStats)
         => result.ret = 0

\* C19 witness: get_stat has just returned the 18 that the call before it
\* set, the other five stats being at 10.
C19_Witness ==
    /\ last.op = "get_stat"
    /\ last.prev_op = "set_stat"
    /\ last.prev_name = last.stat_name
    /\ last.stat_name \in SixStats
    /\ result.ret = 18
    /\ \A other \in SixStats \ {last.stat_name} : StatOf(character, other) = 10

\* The number of times a skill occurs in the skills list.
Occurrences(c, skill_id) ==
    Cardinality({i \in DOMAIN c.skills : c.skills[i] = skill_id})

\* C20 (character skills): after any sequence of learn_skill calls,
\* can_use_skill(s) is true exactly for the skills that were learned, the
\* skills list holds each learned skill exactly once (learning a skill twice
\* changes nothing), and no skill is ever removed.
C20_SkillsLearnedOnce ==
    /\ \A s \in SkillIds :
          Occurrences(character, s) = (IF s \in last.learned THEN 1 ELSE 0)
    /\ Len(character.skills) = Cardinality(last.learned)
    /\ SubSeq(character.skills, 1, Len(last.pre.skills)) = last.pre.skills
    /\ last.op = "can_use_skill"
         => (result.ret <=> last.skill_id \in last.learned)
    /\ (last.op = "learn_skill" /\ Occurrences(last.pre, last.skill_id) > 0)
         => character = last.pre

\* C20 witness: a skill has just been learned a second time and is in the
\* list once.
C20_Witness ==
    /\ last.op = "learn_skill"
    /\ Occurrences(last.pre, last.skill_id) = 1
    /\ character.skills = <<last.skill_id>>

\* Equal as key/value documents at both levels: the same keys, equal plain
\* values, and nested mappings equal whatever the order of their keys.
SameDocument(a, b) ==
    /\ Keys(a) = Keys(b)
    /\ \A k \in Keys(a) :
          IF k \in MappingKeys
          THEN DictEq(Get(a, k), Get(b, k))
          ELSE Get(a, k) = Get(b, k)

\* C21 (already_synced is a no-op): when both replicas hold a document for
\* the id and the two are equal as key/value documents, whatever the order
\* of their keys, sync returns already_synced with the local document and
\* writes to neither replica, so both files, metadata included, are as
\* before; a call that returns profile_not_found writes nothing either.
C21_AlreadySyncedWritesNothing ==
    /\ (PlainSync /\ Stored(PreLocal) /\ Stored(PreCloud)
          /\ SameDocument(PreLocal.doc, PreCloud.doc))
         => /\ result.action = "already_synced"
            /\ result.profile = Some(PreLocal.doc)
            /\ files = last.pre
    /\ (last.op = "sync" /\ result.action = "profile_not_found")
         => files = last.pre

\* The position of the first occurrence of a step in a sequence of steps
\* (0 when it has not been done).
StepAt(done, step) ==
    IF \E i \in DOMAIN done : done[i] = step
    THEN CHOOSE i \in DOMAIN done :
             done[i] = step /\ \A j \in 1..(i - 1) : done[j] # step
    ELSE 0

\* C22 (pipeline order): within one call of sync_profile the local read
\* comes before the remote read, both reads before the decision, every
\* write after the decision, and in the conflict branch the local write
\* before the remote write.  (The intermediate state this opens to a second
\* call for the same id is the witness.)
C22_PipelineOrder ==
    \A t \in Threads :
        LET done == threads[t].done
            At(step) == StepAt(done, step)
        IN  /\ At("fetch") > 0 => (At("load") > 0 /\ At("load") < At("fetch"))
            /\ At("decide") > 0
                 => (At("fetch") > 0 /\ At("fetch") < At("decide"))
            /\ At("save") > 0
                 => (At("decide") > 0 /\ At("decide") < At("save"))
            /\ At("push") > 0
                 => (At("decide") > 0 /\ At("decide") < At("push"))
            /\ (threads[t].action = "conflict_resolved" /\ At("push") > 0)
                 => (At("save") > 0 /\ At("save") < At("push"))

\* C22 witness: one thread is in the conflict branch between its two
\* writes, so the local file holds the resolved document while the remote
\* file still holds the document that thread fetched, and a second thread,
\* in a call for the same id, has read that local document.
C22_Witness ==
    \E t, u \in Threads :
        /\ t # u
        /\ threads[t].action = "conflict_resolved"
        /\ threads[t].todo = <<"push">>
        /\ files[LocalPath(threads[t].profile_id)] = JsonFile(threads[t].doc)
        /\ files[CloudPath(threads[t].profile_id)]
             = JsonFile(threads[t].cloud_profile.doc)
        /\ threads[u].profile_id = threads[t].profile_id
        /\ threads[u].pc = "fetch"
        /\ threads[u].local_profile = Some(threads[t].doc)

\* A document without one of its keys.
Without(d, key) == SelectSeq(d, LAMBDA kv : kv[1] # key)

\* C23 (sync_hash meaning): after every successful write of the engine to
\* the local replica (download or conflict resolution, in any sequence of
\* syncs), the sync_hash of the stored document is the digest of the
\* document written by that write, taken without a sync_hash left over from
\* an earlier write, and last_sync is the time of that write.
C23_SyncHashOfThisWrite ==
    (last.op = "sync" /\ last.saved)
    => /\ Stored(PostLocal)
       /\ Has(PostLocal.doc, "sync_hash")
       /\ Get(PostLocal.doc, "sync_hash")
            = GetProfileHash(Without(PostLocal.doc, "sync_hash"))
       /\ GetOr(PostLocal.doc, "last_sync", <<>>) = IsoFormat(last.pre_now)

CloudPaths == {p \in DOMAIN files : p[1] = "cloud_"}

=============================================================================
